---- MODULE Spec2Model ----
(***************************************************************************)
(* Access-credential cache and refresh coordinator of wechat-minapp:       *)
(* MemoryTokenStorage (src/client/token_storage.rs) with the expiry policy *)
(* of src/client/access_token.rs.  Callers are concurrent tasks sharing    *)
(* one storage; every step between two points where another thread can     *)
(* observe or change the shared state is one action.                       *)
(***************************************************************************)
EXTENDS Integers, FiniteSets, Sequences, TLC

\* ---------------------------------------------------------------- bounds
NumCallers == 2
MaxCalls == 3
MaxTicks == 1
MaxNowSample == 9

\* ------------------------------------------------------- program constants
MarginMinutes == 5
MaxSceneLen == 32

Callers == 1..NumCallers

\* Tokens are numbered: 0 is the empty String of the placeholder, and the n-th
\* transport invocation answers, when it succeeds, with token n (the platform
\* issues a new token with every exchange).
Empty == 0
NoToken == 0 - 1

\* expires_in values (seconds) a response can carry: the platform's usual
\* 7200 s, and one shorter than the safety margin.
ExpiresIn == {7200, 299}

\* Amounts (seconds) by which the wall clock advances between two steps.
TickSteps == {6900, 6901}

\* Clock samples and remaining lifetimes for the expiry policy taken alone.
NowSamples == 0..MaxNowSample
RemainingSamples == ((0 - 2)..2) \cup (298..302) \cup {0 - 7200, 7200}

VARIABLES
    now,              \* Utc::now(), seconds since construction
    ticks,            \* number of clock advances so far
    access_token,     \* the AccessToken inside the RwLock
    refreshing,       \* the AtomicBool
    waiters,          \* callers registered on the Notify and not yet woken
    readers,          \* callers holding a read guard of the RwLock
    writers,          \* callers holding the write guard of the RwLock
    pc,               \* position of each caller
    op,               \* the trait method each caller is running
    builder,          \* the credential parsed from the response, per caller
    ret,              \* what refresh_access_token() returned to token()
    last,             \* the most recent return of a call: who, what, how
    tr,               \* outcome of the transport call made in the caller's call
    started,          \* number of calls begun
    transport_calls,  \* number of transport invocations so far
    excused,          \* failed, abandoned or lapsed refreshes so far
    response,         \* the credential of the latest successful exchange, if any
    orphaned,         \* a caller was dropped while it held the refresher flag
    direct,           \* refresh_access_token() has been called directly
    att,              \* the refresh attempt of the current flag holder
    lost,             \* per caller: the attempt it lost the CAS to
    parked_on,        \* callers that lost the CAS to the current attempt
    check,            \* the verdict of the expiry policy when it is run alone
    exchange,         \* the latest HTTP exchange of the token type, when modelled
    handles,          \* per caller: its client handle, what it points to
    log,              \* the latest debug line written with a credential
    qr,               \* the arguments given to a QR-code builder and what came of them
    parsed,           \* Utc::now() and expires_in of the latest response parsed
    stable            \* Client::stable_access_token: force_refresh of each call, and
                      \* the one last passed to get_stable_access_token

vars == <<now, ticks, access_token, refreshing, waiters, readers, writers, pc,
          op, builder, ret, last, tr, started, transport_calls, excused,
          response, orphaned, direct, att, lost, parked_on, check, exchange, handles, log,
          qr, parsed, stable>>

\* ------------------------------------------------------------ expiry policy
\* chrono: DateTime::signed_duration_since, Duration::minutes
signed_duration_since(a, b) == a - b
DurationMinutes(m) == m * 60

is_token_expired_abs(token, t) ==
    LET d == signed_duration_since(token.expired_at, t)
    IN  (IF d < 0 THEN 0 - d ELSE d) < DurationMinutes(MarginMinutes)

is_token_expired_no_margin(token, t) ==
    signed_duration_since(token.expired_at, t) < 0

is_token_expired_le(token, t) ==
    signed_duration_since(token.expired_at, t) <= DurationMinutes(MarginMinutes)

is_token_expired(token, t) ==
    signed_duration_since(token.expired_at, t) < DurationMinutes(MarginMinutes)

\* AccessTokenBuilder::deserialize_expired_at: Utc::now() + seconds
deserialize_expired_at(seconds, t) == t + seconds

\* --------------------------------------------------------------- rendering
fmt_derived(token) ==
    [name |-> "AccessToken", access_token |-> token.access_token,
     expired_at |-> token.expired_at]

\* impl Debug for AccessToken: debug_struct("AccessToken") with the field
\* access_token rendered from the literal "********" and expired_at from the
\* credential.
fmt(token) ==
    [name |-> "AccessToken", access_token |-> "********",
     expired_at |-> token.expired_at]

\* No line written yet.
NoLog == [name |-> "none", access_token |-> "", expired_at |-> 0]

\* ------------------------------------------------------------- construction
NewFresh(t) == [access_token |-> Empty, expired_at |-> t + 7200]

\* MemoryTokenStorage::new: empty token, expired_at = Utc::now()
New(t) == [access_token |-> Empty, expired_at |-> t]

\* The transport call of a call: not made ("none"), in flight ("sent"), failed
\* ("fail"), or answered ("ok") with a token.
NoTransport == [out |-> "none", token |-> Empty]
Sent == [out |-> "sent", token |-> Empty]
Failed == [out |-> "fail", token |-> Empty]
Answered(tok) == [out |-> "ok", token |-> tok]

\* No response has been parsed yet.
NoParse == [at |-> 0, seconds |-> 0]

\* force_refresh: impl Into<Option<bool>>
ForceRefresh == {"None", "Some(false)", "Some(true)"}

\* No call of Client::stable_access_token() has been made.
NoStable == [force_refresh |-> [c \in Callers |-> "None"], request |-> "none"]

\* Result<String>: Ok(token) or Err(e)
NoResult == [kind |-> "none", token |-> Empty]
Ok(tok) == [kind |-> "ok", token |-> tok]
Err == [kind |-> "err", token |-> Empty]

\* An HTTP exchange of the token type: self.client.execute(request) fails
\* (net = "error") or returns a response with a status and a body; the body is
\* the JSON of a credential, or anything else (an errcode object, no JSON).
NoExchange == [net |-> "none", status |-> 0, body |-> "none"]
NetworkError == [net |-> "error", status |-> 0, body |-> "none"]
Exchanges ==
    {NetworkError} \cup [net : {"ok"}, status : {200, 500}, body : {"credential", "other"}]

NoAttempt == [pre |-> Empty, newer |-> NoToken, failed |-> FALSE]

\* The record of a return: the Result, the path of token() that
\* produced it ("fast", "winner", "loser", or "direct" for a direct
\* refresh_access_token()), the outcome of the transport call of that call,
\* and for a loser the attempt it lost the CAS to.
NoReturn == [res |-> NoResult, path |-> "none", tr |-> NoTransport, lost |-> NoAttempt]
Return(c, res, path) ==
    [res |-> res, path |-> path, tr |-> tr[c], lost |-> lost[c]]

\* ------------------------------------------------------ QR-code arguments
\* A string given as page path, by what validate() looks at: whether it was
\* given at all, its length in bytes, whether it starts with '/', whether the
\* URL made of it has query pairs, and whether one of its '/'-separated
\* segments is empty or has surrounding white space.
PageLengths == {1, 17, 1023, 1024, 1025, 2048}
Pages ==
    [set : {TRUE}, len : PageLengths, slash_first : BOOLEAN, query : BOOLEAN,
     bad_segment : BOOLEAN]
NoPage == [set |-> FALSE, len |-> 0, slash_first |-> FALSE, query |-> FALSE,
           bad_segment |-> FALSE]

\* A string given as scene, by its characters: how many are in VALID_CHARS,
\* how many are other ASCII characters (one byte each), how many are
\* non-ASCII characters of three bytes each (CJK).
Scenes ==
    [set : {TRUE}, valid : {0, 1, 31, 32, 33}, other : {0, 1}, wide : {0, 1, 11}]
NoScene == [set |-> FALSE, valid |-> 0, other |-> 0, wide |-> 0]

\* str::len, in bytes, and the number of characters.
len(s) == s.valid + s.other + 3 * s.wide
chars(s) == s.valid + s.other + s.wide

NoBuild == [kind |-> "none", err |-> "none"]
Built == [kind |-> "ok", err |-> "none"]
Rejected(e) == [kind |-> "err", err |-> e]

NoQr == [page |-> NoPage, scene |-> NoScene, auto_color |-> FALSE,
         line_color |-> FALSE, result |-> NoBuild, scene_result |-> NoBuild]

\* What the Arcs of a client handle point to: the credential, the refresher
\* flag and the Notify of the storage.
Contents == [access_token |-> access_token, refreshing |-> refreshing,
             waiters |-> waiters]

\* A client handle: absent, or holding Arcs to the storage (shared), or
\* holding a state of its own.
NoHandle == [live |-> FALSE, shared |-> FALSE,
             own |-> [access_token |-> New(0), refreshing |-> FALSE, waiters |-> {}]]
ArcHandle == [NoHandle EXCEPT !.live = TRUE, !.shared = TRUE]

InitCommon ==
    /\ ticks = 0
    /\ refreshing = FALSE
    /\ waiters = {}
    /\ readers = {}
    /\ writers = {}
    /\ pc = [c \in Callers |-> "idle"]
    /\ op = [c \in Callers |-> "none"]
    /\ builder = [c \in Callers |-> New(0)]
    /\ ret = [c \in Callers |-> NoResult]
    /\ last = NoReturn
    /\ tr = [c \in Callers |-> NoTransport]
    /\ started = 0
    /\ transport_calls = 0
    /\ excused = 0
    /\ response = {}
    /\ orphaned = FALSE
    /\ direct = FALSE
    /\ att = NoAttempt
    /\ lost = [c \in Callers |-> NoAttempt]
    /\ parked_on = {}
    /\ exchange = NoExchange
    /\ log = NoLog
    /\ parsed = NoParse
    /\ stable = NoStable

\* Every caller works on the one storage, through &self or an Arc of it.
Init ==
    /\ now = 0
    /\ access_token = New(now)
    /\ check = "none"
    /\ handles = [c \in Callers |-> ArcHandle]
    /\ qr = NoQr
    /\ InitCommon

\* ------------------------------------------------------------ tokio RwLock
CanReadIgnoringWriter == TRUE

CanRead == writers = {}

CanWriteIgnoringWriter == readers = {}

CanWrite == readers = {} /\ writers = {}

\* ------------------------------------------------------------------- ghosts
Stale == is_token_expired(access_token, now)

\* A store of a credential that is stale at once excuses one more refresh.
LapseOnStore(cred, t) == IF is_token_expired(cred, t) THEN 1 ELSE 0

\* Every caller that lost the CAS and has not re-read yet sees the store.
NoteStore(tok) ==
    /\ att' = IF refreshing THEN [att EXCEPT !.newer = tok] ELSE att
    /\ lost' = [c \in Callers |->
                  IF pc[c] \in {"notified", "wait", "loser_ret"}
                  THEN [lost[c] EXCEPT !.newer = tok] ELSE lost[c]]

\* ------------------------------------------------- leaving refresh_access_token
\* refresh_access_token() returns res: to the match in token() when token()
\* called it, to the caller when it was called directly.  outcome is what the
\* transport call of this call came to.
ReturnFromRefresh(c, res, outcome) ==
    IF op[c] = "token"
    THEN /\ ret' = [ret EXCEPT ![c] = res]
         /\ pc' = [pc EXCEPT ![c] = "clear"]
         /\ tr' = [tr EXCEPT ![c] = outcome]
         /\ UNCHANGED <<op, last,
                   direct, parsed>>
    ELSE /\ last' = [Return(c, res, "direct") EXCEPT !.tr = outcome]
         /\ pc' = [pc EXCEPT ![c] = "idle"]
         /\ op' = [op EXCEPT ![c] = "none"]
         /\ tr' = [tr EXCEPT ![c] = NoTransport]
         /\ UNCHANGED ret

\* A call of token() returns res by the given path.
ReturnFromToken(c, res, path) ==
    /\ last' = Return(c, res, path)
    /\ pc' = [pc EXCEPT ![c] = "idle"]
    /\ op' = [op EXCEPT ![c] = "none"]
    /\ tr' = [tr EXCEPT ![c] = NoTransport]
    /\ ret' = [ret EXCEPT ![c] = NoResult]
    /\ lost' = [lost EXCEPT ![c] = NoAttempt]

\* ------------------------------------------------------------------ actions
\* A caller begins MemoryTokenStorage::token() and its
\* self.access_token.read().await completes.
StartToken(c) ==
    /\ pc[c] = "idle"
    /\ started < MaxCalls
    /\ CanRead
    /\ readers' = readers \cup {c}
    /\ started' = started + 1
    /\ pc' = [pc EXCEPT ![c] = "fast_check"]
    /\ op' = [op EXCEPT ![c] = "token"]
    /\ UNCHANGED <<now, ticks, access_token, refreshing, waiters, writers, builder,
                   ret, last, tr, transport_calls, excused, response, orphaned,
                   att, lost, parked_on, check, exchange, handles, log, qr,
                   direct, parsed>>

StartRefreshTakesFlag(c) ==
    /\ pc[c] = "idle"
    /\ started < MaxCalls
    /\ started' = started + 1
    /\ pc' = [pc EXCEPT ![c] = "write_wait"]
    /\ op' = [op EXCEPT ![c] = "refresh"]
    /\ direct' = TRUE
    /\ refreshing' = TRUE
    /\ UNCHANGED <<now, ticks, access_token, waiters, readers, writers,
                   builder, ret, last, tr, transport_calls, excused, response,
                   orphaned, att, lost, parked_on, check, exchange, handles, log, qr,
                   parsed, stable>>

\* A caller begins TokenStorage::refresh_access_token() directly.
StartRefresh(c) ==
    /\ pc[c] = "idle"
    /\ started < MaxCalls
    /\ started' = started + 1
    /\ pc' = [pc EXCEPT ![c] = "write_wait"]
    /\ op' = [op EXCEPT ![c] = "refresh"]
    /\ direct' = TRUE
    /\ UNCHANGED <<now, ticks, access_token, refreshing, waiters, readers, writers,
                   builder, ret, last, tr, transport_calls, excused, response,
                   orphaned, att, lost, parked_on, check, exchange, handles, log, qr,
                   parsed, stable>>

FastCheckNoTest(c) ==
    /\ pc[c] = "fast_check"
    /\ readers' = readers \ {c}
    /\ ReturnFromToken(c, Ok(access_token.access_token), "fast")
    /\ UNCHANGED <<now, ticks, access_token, refreshing, waiters, writers, builder,
                   started, transport_calls, excused, response, orphaned, att,
                   parked_on, check, exchange, handles, log, qr,
                   direct, parsed, stable>>

FastCheckResetsFlag(c) ==
    /\ pc[c] = "fast_check"
    /\ readers' = readers \ {c}
    /\ IF ~is_token_expired(access_token, now)
       THEN /\ ReturnFromToken(c, Ok(access_token.access_token), "fast")
            /\ refreshing' = FALSE
       ELSE /\ pc' = [pc EXCEPT ![c] = "cas"]
            /\ UNCHANGED <<op, ret, last, tr, lost, refreshing>>
    /\ UNCHANGED <<now, ticks, access_token, waiters, writers, builder,
                   started, transport_calls, excused, response, orphaned, att,
                   parked_on, check, exchange, handles, log, qr, direct, parsed, stable>>

FastCheckKeepsGuard(c) ==
    /\ pc[c] = "fast_check"
    /\ IF ~is_token_expired(access_token, now)
       THEN /\ ReturnFromToken(c, Ok(access_token.access_token), "fast")
            /\ readers' = readers \ {c}
       ELSE /\ pc' = [pc EXCEPT ![c] = "cas"]
            /\ UNCHANGED <<op, ret, last, tr, lost, readers,
                   direct, parsed, stable>>
    /\ UNCHANGED <<now, ticks, access_token, refreshing, waiters, writers, builder,
                   started, transport_calls, excused, response, orphaned, att,
                   parked_on, check, exchange, handles, log, qr,
                   direct, parsed, stable>>

\* token(): if !is_token_expired(&guard) { return Ok(..) }, then the guard drops
FastCheck(c) ==
    /\ pc[c] = "fast_check"
    /\ readers' = readers \ {c}
    /\ IF ~is_token_expired(access_token, now)
       THEN ReturnFromToken(c, Ok(access_token.access_token), "fast")
       ELSE /\ pc' = [pc EXCEPT ![c] = "cas"]
            /\ UNCHANGED <<op, ret, last, tr, lost,
                   direct, parsed, stable>>
    /\ UNCHANGED <<now, ticks, access_token, refreshing, waiters, writers, builder,
                   started, transport_calls, excused, response, orphaned, att,
                   parked_on, check, exchange, handles, log, qr,
                   direct, parsed, stable>>

CasNotAtomic(c) ==
    /\ pc[c] = "cas"
    /\ refreshing' = TRUE
    /\ pc' = [pc EXCEPT ![c] = "write_wait"]
    /\ att' = [pre |-> access_token.access_token, newer |-> NoToken,
               failed |-> FALSE]
    /\ parked_on' = {}
    /\ UNCHANGED <<now, ticks, access_token, waiters, readers, writers, op, builder,
                   ret, last, tr, started, transport_calls, excused, response,
                   orphaned, lost, check, exchange, handles, log, qr,
                   direct, parsed, stable>>

\* token(): self.refreshing.compare_exchange(false, true, AcqRel, Acquire)
Cas(c) ==
    /\ pc[c] = "cas"
    /\ IF refreshing = FALSE
       THEN /\ refreshing' = TRUE
            /\ pc' = [pc EXCEPT ![c] = "write_wait"]
            /\ att' = [pre |-> access_token.access_token, newer |-> NoToken,
                       failed |-> FALSE]
            /\ parked_on' = {}
            /\ UNCHANGED lost
       ELSE /\ pc' = [pc EXCEPT ![c] = "notified"]
            /\ lost' = [lost EXCEPT ![c] = att]
            /\ parked_on' = parked_on \cup {c}
            /\ UNCHANGED <<refreshing, att,
                   direct, parsed, stable>>
    /\ UNCHANGED <<now, ticks, access_token, waiters, readers, writers, op, builder,
                   ret, last, tr, started, transport_calls, excused, response,
                   orphaned, check, exchange, handles, log, qr,
                   direct, parsed, stable>>

WriteLockNoDoubleCheck(c) ==
    /\ pc[c] = "write_wait"
    /\ CanWrite
    /\ writers' = writers \cup {c}
    /\ pc' = [pc EXCEPT ![c] = "transport"]
    /\ transport_calls' = transport_calls + 1
    /\ tr' = [tr EXCEPT ![c] = Sent]
    /\ UNCHANGED <<now, ticks, access_token, refreshing, waiters, readers, builder,
                   op, ret, last, started, excused, response, orphaned, att, lost,
                   parked_on, check, exchange, handles, log, qr,
                   direct, parsed>>

WriteLockReleasesEarly(c) ==
    /\ pc[c] = "write_wait"
    /\ CanWrite
    /\ IF ~is_token_expired(access_token, now)
       THEN /\ ReturnFromRefresh(c, Ok(access_token.access_token), NoTransport)
            /\ UNCHANGED <<transport_calls, direct, parsed>>
       ELSE /\ pc' = [pc EXCEPT ![c] = "transport"]
            /\ transport_calls' = transport_calls + 1
            /\ tr' = [tr EXCEPT ![c] = Sent]
            /\ UNCHANGED <<op, ret, last, direct, parsed>>
    /\ UNCHANGED <<now, ticks, access_token, refreshing, waiters, readers, writers,
                   builder, started, excused, response, orphaned, att, lost,
                   parked_on, check, exchange, handles, log, qr>>

\* refresh_access_token(): self.access_token.write().await, the double check
\* under the guard, and for a stale credential the start of the transport call
\* self.token_type.token().
WriteLock(c) ==
    /\ pc[c] = "write_wait"
    /\ CanWrite
    /\ IF ~is_token_expired(access_token, now)
       THEN /\ ReturnFromRefresh(c, Ok(access_token.access_token), NoTransport)
            /\ UNCHANGED <<writers, transport_calls,
                   direct, parsed>>
       ELSE /\ writers' = writers \cup {c}
            /\ pc' = [pc EXCEPT ![c] = "transport"]
            /\ transport_calls' = transport_calls + 1
            /\ tr' = [tr EXCEPT ![c] = Sent]
            /\ UNCHANGED <<op, ret, last,
                   direct, parsed>>
    /\ UNCHANGED <<now, ticks, access_token, refreshing, waiters, readers, builder,
                   started, excused, response, orphaned, att, lost, parked_on,
                   check, exchange, handles, log, qr,
                   direct, parsed>>

TransportOkClearsFlag(c, seconds) ==
    /\ pc[c] = "transport"
    /\ builder' = [builder EXCEPT ![c] =
                     [access_token |-> transport_calls,
                      expired_at |-> deserialize_expired_at(seconds, now)]]
    /\ parsed' = [at |-> now, seconds |-> seconds]
    /\ response' = {builder'[c]}
    /\ tr' = [tr EXCEPT ![c] = Answered(builder'[c].access_token)]
    /\ access_token' = [access_token EXCEPT !.access_token = builder'[c].access_token]
    /\ NoteStore(builder'[c].access_token)
    /\ pc' = [pc EXCEPT ![c] = "store_expiry"]
    /\ refreshing' = FALSE
    /\ UNCHANGED <<now, ticks, waiters, readers, writers, op, ret,
                   last, started, transport_calls, excused, orphaned, parked_on,
                   check, handles, log, qr,
                   direct, stable>>

\* The exchange succeeds with expires_in = seconds: serde builds the
\* AccessTokenBuilder, whose expired_at is Utc::now() + seconds at this moment,
\* and refresh_access_token() runs guard.access_token =
\* builder.access_token.clone().
TransportOk(c, seconds) ==
    /\ pc[c] = "transport"
    /\ builder' = [builder EXCEPT ![c] =
                     [access_token |-> transport_calls,
                      expired_at |-> deserialize_expired_at(seconds, now)]]
    /\ parsed' = [at |-> now, seconds |-> seconds]
    /\ response' = {builder'[c]}
    /\ tr' = [tr EXCEPT ![c] = Answered(builder'[c].access_token)]
    /\ access_token' = [access_token EXCEPT !.access_token = builder'[c].access_token]
    /\ NoteStore(builder'[c].access_token)
    /\ pc' = [pc EXCEPT ![c] = "store_expiry"]
    /\ UNCHANGED <<now, ticks, refreshing, waiters, readers, writers, op, ret,
                   last, started, transport_calls, excused, orphaned, parked_on,
                   check, handles, log, qr,
                   direct, stable>>

\* The failed attempt is known to the callers parked on it.
NoteFailure(c) ==
    IF op[c] = "token"
    THEN /\ att' = [att EXCEPT !.failed = TRUE]
         /\ lost' = [d \in Callers |->
                       IF d \in parked_on THEN [lost[d] EXCEPT !.failed = TRUE]
                       ELSE lost[d]]
    ELSE UNCHANGED <<att, lost>>

TransportErrClearsCache(c) ==
    /\ pc[c] = "transport"
    /\ writers' = writers \ {c}
    /\ access_token' = New(now)
    /\ excused' = excused + 1
    /\ ReturnFromRefresh(c, Err, Failed)
    /\ NoteFailure(c)
    /\ UNCHANGED <<now, ticks, refreshing, waiters, readers, builder, started,
                   transport_calls, response, orphaned, parked_on, check, handles, log, qr,
                   direct, parsed, stable>>

TransportErrRetries(c) ==
    /\ pc[c] = "transport"
    /\ writers' = writers \ {c}
    /\ excused' = excused + 1
    /\ pc' = [pc EXCEPT ![c] = "write_wait"]
    /\ tr' = [tr EXCEPT ![c] = Failed]
    /\ NoteFailure(c)
    /\ UNCHANGED <<now, ticks, access_token, refreshing, waiters, readers, builder,
                   op, ret, last, started, transport_calls, response, orphaned,
                   parked_on, check, handles, log, qr, direct, parsed, stable>>

\* The exchange fails (network, status or decoding): `?` returns the error and
\* drops the write guard.
TransportErr(c) ==
    /\ pc[c] = "transport"
    /\ writers' = writers \ {c}
    /\ excused' = excused + 1
    /\ ReturnFromRefresh(c, Err, Failed)
    /\ NoteFailure(c)
    /\ UNCHANGED <<now, ticks, access_token, refreshing, waiters, readers, builder,
                   started, transport_calls, response, orphaned, parked_on, check, handles, log, qr,
                   direct, parsed, stable>>

StoreExpiryAtWriteClock(c) ==
    /\ pc[c] = "store_expiry"
    /\ access_token' = [access_token EXCEPT !.expired_at = now + parsed.seconds]
    /\ log' = fmt(access_token')
    /\ writers' = writers \ {c}
    /\ excused' = excused + LapseOnStore(access_token', now)
    /\ ReturnFromRefresh(c, Ok(access_token'.access_token), tr[c])
    /\ builder' = [builder EXCEPT ![c] = New(0)]
    /\ UNCHANGED <<now, ticks, refreshing, waiters, readers, started,
                   transport_calls, response, orphaned, att, lost, parked_on,
                   check, exchange, handles, qr,
                   direct, parsed, stable>>

\* refresh_access_token(): guard.expired_at = builder.expired_at, the debug
\* line debug!("fresh access token: {:#?}", guard), then
\* Ok(guard.access_token.clone()) and the write guard drops.
StoreExpiry(c) ==
    /\ pc[c] = "store_expiry"
    /\ access_token' = [access_token EXCEPT !.expired_at = builder[c].expired_at]
    /\ log' = fmt(access_token')
    /\ writers' = writers \ {c}
    /\ excused' = excused + LapseOnStore(access_token', now)
    /\ ReturnFromRefresh(c, Ok(access_token'.access_token), tr[c])
    /\ builder' = [builder EXCEPT ![c] = New(0)]
    /\ UNCHANGED <<now, ticks, refreshing, waiters, readers, started,
                   transport_calls, response, orphaned, att, lost, parked_on,
                   check, exchange, handles, qr,
                   direct, parsed, stable>>

ClearOnlyOnOk(c) ==
    /\ pc[c] = "clear"
    /\ refreshing' = (ret[c].kind = "err")
    /\ parked_on' = {}
    /\ att' = NoAttempt
    /\ pc' = [pc EXCEPT ![c] = "notify"]
    /\ UNCHANGED <<now, ticks, access_token, waiters, readers, writers, op, builder,
                   ret, last, tr, started, transport_calls, excused, response,
                   orphaned, lost, check, exchange, handles, log, qr,
                   direct, parsed, stable>>

\* token(): self.refreshing.store(false, Release), in the Ok arm and in the
\* Err arm alike.
Clear(c) ==
    /\ pc[c] = "clear"
    /\ refreshing' = FALSE
    /\ parked_on' = {}
    /\ att' = NoAttempt
    /\ pc' = [pc EXCEPT ![c] = "notify"]
    /\ UNCHANGED <<now, ticks, access_token, waiters, readers, writers, op, builder,
                   ret, last, tr, started, transport_calls, excused, response,
                   orphaned, lost, check, exchange, handles, log, qr,
                   direct, parsed, stable>>

NotifyOnlyAfterTransport(c) ==
    /\ pc[c] = "notify"
    /\ waiters' = IF tr[c] = NoTransport THEN waiters ELSE {}
    /\ ReturnFromToken(c, ret[c], "winner")
    /\ UNCHANGED <<now, ticks, access_token, refreshing, readers, writers, builder,
                   started, transport_calls, excused, response, orphaned, att,
                   parked_on, check, exchange, handles, log, qr, direct, parsed, stable>>

\* token(): self.notify.notify_waiters(), then Ok(token) or Err(e)
NotifyWaiters(c) ==
    /\ pc[c] = "notify"
    /\ waiters' = {}
    /\ ReturnFromToken(c, ret[c], "winner")
    /\ UNCHANGED <<now, ticks, access_token, refreshing, readers, writers, builder,
                   started, transport_calls, excused, response, orphaned, att,
                   parked_on, check, exchange, handles, log, qr,
                   direct, parsed, stable>>

\* token(): self.notify.notified() creates the Notified future; from here a
\* notify_waiters() completes it.
Register(c) ==
    /\ pc[c] = "notified"
    /\ waiters' = waiters \cup {c}
    /\ pc' = [pc EXCEPT ![c] = "wait"]
    /\ UNCHANGED <<now, ticks, access_token, refreshing, readers, writers, op,
                   builder, ret, last, tr, started, transport_calls, excused,
                   response, orphaned, att, lost, parked_on, check, exchange, handles, log, qr,
                   direct, parsed, stable>>

\* token(), loser: the Notified future completes and
\* self.access_token.read().await completes.
Wake(c) ==
    /\ pc[c] = "wait"
    /\ c \notin waiters
    /\ CanRead
    /\ readers' = readers \cup {c}
    /\ pc' = [pc EXCEPT ![c] = "loser_ret"]
    /\ UNCHANGED <<now, ticks, access_token, refreshing, waiters, writers, op,
                   builder, ret, last, tr, started, transport_calls, excused,
                   response, orphaned, att, lost, parked_on, check, exchange, handles, log, qr,
                   direct, parsed, stable>>

LoserReturnErrIfStale(c) ==
    /\ pc[c] = "loser_ret"
    /\ readers' = readers \ {c}
    /\ ReturnFromToken(c, IF is_token_expired(access_token, now) THEN Err
                          ELSE Ok(access_token.access_token), "loser")
    /\ UNCHANGED <<now, ticks, access_token, refreshing, waiters, writers, builder,
                   started, transport_calls, excused, response, orphaned, att,
                   parked_on, check, exchange, handles, log, qr,
                   direct, parsed, stable>>

LoserRetriesIfStale(c) ==
    /\ pc[c] = "loser_ret"
    /\ readers' = readers \ {c}
    /\ IF is_token_expired(access_token, now)
       THEN /\ pc' = [pc EXCEPT ![c] = "cas"]
            /\ UNCHANGED <<op, ret, last, tr, lost>>
       ELSE ReturnFromToken(c, Ok(access_token.access_token), "loser")
    /\ UNCHANGED <<now, ticks, access_token, refreshing, waiters, writers, builder,
                   started, transport_calls, excused, response, orphaned, att,
                   parked_on, check, exchange, handles, log, qr, direct, parsed, stable>>

\* token(), loser: Ok(guard.access_token.clone()), the read guard drops
LoserReturn(c) ==
    /\ pc[c] = "loser_ret"
    /\ readers' = readers \ {c}
    /\ ReturnFromToken(c, Ok(access_token.access_token), "loser")
    /\ UNCHANGED <<now, ticks, access_token, refreshing, waiters, writers, builder,
                   started, transport_calls, excused, response, orphaned, att,
                   parked_on, check, exchange, handles, log, qr,
                   direct, parsed, stable>>

\* The positions at which a call is suspended in an .await: the write lock, the
\* transport, the Notified future (and the read lock behind it).
AwaitPoints == {"write_wait", "transport", "wait"}

\* The caller's future is pending: the lock it asks for is held, the exchange
\* is under way, or no notify_waiters() has come.
Pending(c) ==
    \/ pc[c] = "write_wait" /\ ~CanWrite
    \/ pc[c] = "transport"
    \/ pc[c] = "wait" /\ (c \in waiters \/ ~CanRead)

\* The caller's pending future is dropped at its .await (a timeout or select!
\* around the call): its guards and its Notified future drop with it, nothing
\* else of the function runs.
Cancel(c) ==
    /\ pc[c] \in AwaitPoints
    /\ Pending(c)
    /\ writers' = writers \ {c}
    /\ waiters' = waiters \ {c}
    /\ parked_on' = parked_on \ {c}
    /\ pc' = [pc EXCEPT ![c] = "idle"]
    /\ op' = [op EXCEPT ![c] = "none"]
    /\ tr' = [tr EXCEPT ![c] = NoTransport]
    /\ lost' = [lost EXCEPT ![c] = NoAttempt]
    /\ excused' = excused + (IF pc[c] = "transport" THEN 1 ELSE 0)
    /\ orphaned' = (orphaned \/ (op[c] = "token" /\ pc[c] \in {"write_wait", "transport"}))
    /\ UNCHANGED <<now, ticks, access_token, refreshing, readers, builder, ret,
                   last, started, transport_calls, response, att, check, exchange, handles, log, qr,
                   direct, parsed, stable>>

\* The wall clock advances.
Tick(d) ==
    /\ ticks < MaxTicks
    /\ ticks' = ticks + 1
    /\ now' = now + d
    /\ excused' = excused +
                  (IF ~Stale /\ is_token_expired(access_token, now') THEN 1 ELSE 0)
    /\ UNCHANGED <<access_token, refreshing, waiters, readers, writers, pc, op,
                   builder, ret, last, tr, started, transport_calls, response,
                   orphaned, att, lost, parked_on, check, exchange, handles, log, qr,
                   direct, parsed, stable>>

Next ==
    \/ \E c \in Callers : StartToken(c) /\ UNCHANGED stable
    \/ \E c \in Callers : StartRefresh(c)
    \/ \E c \in Callers : FastCheck(c)
    \/ \E c \in Callers : Cas(c)
    \/ \E c \in Callers : WriteLock(c) /\ UNCHANGED stable
    \/ \E c \in Callers, seconds \in ExpiresIn :
           TransportOk(c, seconds) /\ UNCHANGED exchange
    \/ \E c \in Callers : TransportErr(c) /\ UNCHANGED exchange
    \/ \E c \in Callers : StoreExpiry(c)
    \/ \E c \in Callers : Clear(c)
    \/ \E c \in Callers : NotifyWaiters(c)
    \/ \E c \in Callers : Register(c)
    \/ \E c \in Callers : Wake(c)
    \/ \E c \in Callers : LoserReturn(c)
    \/ \E c \in Callers : Cancel(c)
    \/ \E d \in TickSteps : Tick(d)

Spec == Init /\ [][Next]_vars

\* ------------------------------------------------ the expiry policy taken alone
\* A credential with any of the sampled remaining lifetimes, at any of the
\* sampled clock readings.
InitExpiry ==
    /\ now \in NowSamples
    /\ \E r \in RemainingSamples : access_token = [access_token |-> 1, expired_at |-> now + r]
    /\ check = "none"
    /\ handles = [c \in Callers |-> ArcHandle]
    /\ qr = NoQr
    /\ InitCommon

\* is_token_expired(&token) is evaluated.
CheckExpiry ==
    /\ check = "none"
    /\ check' = IF is_token_expired(access_token, now) THEN "expired" ELSE "fresh"
    /\ UNCHANGED <<now, ticks, access_token, refreshing, waiters, readers, writers,
                   pc, op, builder, ret, last, tr, started, transport_calls,
                   excused, response, orphaned, att, lost, parked_on,
                   direct, parsed, exchange, handles, log, qr, stable>>

NextExpiry == CheckExpiry

SpecExpiry == InitExpiry /\ [][NextExpiry]_vars

\* ===================================================================== claims
\* The callers whose transport call is in flight.
InFlight == {c \in Callers : pc[c] = "transport"}

\* The positions of token() between a successful compare-and-set and the
\* store that clears the flag.
RefresherPcs == {"write_wait", "transport", "store_expiry", "clear"}

\* C1: under every interleaving of concurrent calls on one storage, at most
\* one transport call is in flight at any time.
C1_SingleFlight == Cardinality(InFlight) <= 1

\* C1 witness: the transport call of a token() call is in flight while another
\* caller is waiting, for the write lock or parked on the Notify.
C1_Witness ==
    \E c, d \in Callers :
        /\ c # d
        /\ pc[c] = "transport" /\ op[c] = "token"
        /\ pc[d] \in {"write_wait", "wait"}

\* Every caller is inside its first token() call and the clock has not moved:
\* NumCallers calls of token() running concurrently on a stale storage.
AllConcurrent ==
    /\ ticks = 0
    /\ started = NumCallers
    /\ \A c \in Callers : op[c] = "token"

\* C2 as stated: N concurrent token() calls on a stale storage invoke the
\* transport exactly once in total (here: never a second time), whatever the
\* interleaving.
C2_ExactlyOnce == AllConcurrent => transport_calls <= 1

\* C2 as amended: no call returns before the transport has been invoked, and
\* every invocation after the first follows an invocation that failed or was
\* abandoned, or a stored credential that is inside the 5-minute margin again:
\* N concurrent calls invoke the transport exactly once when that invocation
\* succeeds with a credential that is still fresh when the others re-check.
C2_OncePerStaleCredential ==
    /\ transport_calls <= 1 + excused
    /\ last # NoReturn => transport_calls >= 1

\* C2 witness: both callers have made one call, the second to return was
\* parked on the first one's refresh, and the transport was invoked once.
C2_Witness ==
    /\ started = NumCallers
    /\ \A c \in Callers : pc[c] = "idle"
    /\ last.path = "loser"
    /\ transport_calls = 1
    /\ excused = 0

\* C3 as stated: when the transport fails, the winner of the compare-and-set
\* gets the error, and a caller that lost the compare-and-set to it returns Ok
\* with the token cached before the attempt (stated for token() calls alone:
\* no direct refresh_access_token() has been made).
C3_LoserGetsPreviousToken ==
    /\ (last.path = "winner" /\ last.tr.out = "fail") => last.res = Err
    /\ (~direct /\ last.path = "loser" /\ last.lost.failed) =>
           last.res = Ok(last.lost.pre)

\* C3 as amended: when the transport fails, the winner gets the error, and a
\* caller that lost the compare-and-set to it returns Ok, never an error, with
\* the token cached when it re-reads: the one cached before the attempt unless
\* another refresh has stored a credential since, and then that newer token.
C3_LoserGetsCachedToken ==
    /\ (last.path = "winner" /\ last.tr.out = "fail") => last.res = Err
    /\ (last.path = "loser" /\ last.lost.failed) =>
           last.res = Ok(IF last.lost.newer = NoToken THEN last.lost.pre
                         ELSE last.lost.newer)

\* C3 witness: on the first refresh ever, which failed, a loser has returned
\* the empty placeholder.
C3_Witness ==
    /\ last.path = "loser"
    /\ last.lost.failed
    /\ last.res = Ok(Empty)
    /\ transport_calls = 1

\* C4: once every refresh attempt of a compare-and-set winner has returned,
\* with success or with failure, the flag is false (so the next token() call
\* that finds the credential stale wins the compare-and-set): the flag is true
\* only while a winner is between its compare-and-set and its clearing store,
\* or after a winner's call was dropped before it returned.
C4_FlagReleased ==
    refreshing =>
        \/ \E c \in Callers : op[c] = "token" /\ pc[c] \in RefresherPcs
        \/ orphaned

\* C4 witness: a winner's attempt has failed and returned, and a later
\* token() call has won the compare-and-set.
C4_Witness ==
    /\ last.path = "winner"
    /\ last.res = Err
    /\ ~orphaned
    /\ \E c \in Callers : op[c] = "token" /\ pc[c] = "write_wait"

\* C5: once a caller has claimed the flag, the refresh runs to completion and
\* the flag is cleared, also when the claiming call is dropped while it waits
\* for the write lock or for the transport: whenever the flag is true, some
\* caller is still between its compare-and-set and its clearing store.
C5_FlagHasLiveOwner ==
    refreshing => \E c \in Callers : op[c] = "token" /\ pc[c] \in RefresherPcs

\* The credential of a new storage (constructed at clock reading 0).
Placeholder == [access_token |-> Empty, expired_at |-> 0]

\* C6: the (token, expiry) pair a caller reads under shared access is the
\* construction placeholder or the complete pair of one transport response,
\* never the token of one credential with the expiry of another.
C6_NoTornPair == readers # {} => access_token \in {Placeholder} \cup response

\* C6 witness: a caller holds shared access to the credential of the second
\* response, which replaced the one of the first.
C6_Witness ==
    /\ readers # {}
    /\ access_token \in response
    /\ access_token.access_token = 2

\* C7: a refresh whose transport call fails stores nothing: from the moment
\* the transport is invoked, under the write guard, until the attempt ends
\* without a response, the cached token and expiry stay what they were.
C7_FailedRefreshStoresNothing ==
    [][\A c \in Callers :
          (pc[c] = "transport" /\ pc'[c] # "store_expiry")
              => access_token' = access_token]_vars

\* C7 witness: the last call to return had its transport call fail, and the
\* cache still holds the credential of the earlier, first response.
C7_Witness ==
    /\ last.tr.out = "fail"
    /\ last.res = Err
    /\ access_token \in response
    /\ access_token.access_token = 1

\* C8: when the cached credential has expires_at - now >= 5 minutes at the
\* clock reading of the call's check, token() returns the cached token in that
\* step and the transport is not invoked.
C8_FreshIsServedFromCache ==
    [][\A c \in Callers :
          (/\ pc[c] = "fast_check"
           /\ pc'[c] # "fast_check"
           /\ access_token.expired_at - now >= 300)
              => /\ pc'[c] = "idle"
                 /\ last' = [res |-> Ok(access_token.access_token), path |-> "fast",
                             tr |-> NoTransport, lost |-> NoAttempt]
                 /\ transport_calls' = transport_calls
                 /\ access_token' = access_token]_vars

\* C8 witness: a call has returned a delivered token by the fast path with
\* exactly 5 minutes of lifetime remaining.
C8_Witness ==
    /\ last.path = "fast"
    /\ last.res = Ok(access_token.access_token)
    /\ access_token.access_token # Empty
    /\ access_token.expired_at - now = 300

\* C9: is_token_expired is true exactly when expires_at - now < 5 minutes:
\* 4 min 59 s is expired, 5 min and 5 min 1 s are fresh, an expiry in the past
\* is expired.
C9_MarginIsFiveMinutes ==
    check # "none" =>
        LET remaining == access_token.expired_at - now IN
        /\ (check = "expired") <=> (remaining < 300)
        /\ remaining = 299 => check = "expired"
        /\ remaining \in {300, 301} => check = "fresh"
        /\ remaining < 0 => check = "expired"

\* C9 witness: a credential with 4 min 59 s remaining was found expired.
C9_Witness ==
    /\ check = "expired"
    /\ access_token.expired_at - now = 299

\* C10: a new storage holds the placeholder (empty token, expiry = time of
\* construction, flag false); the placeholder is stale at every later clock
\* reading, so no call returns before the transport has been invoked; and a
\* winner whose transport call succeeded returns Ok with the non-empty token
\* that call delivered.
C10_FirstCallRefreshes ==
    /\ (started = 0 /\ ticks = 0) =>
           (access_token = [access_token |-> Empty, expired_at |-> now] /\ ~refreshing)
    /\ transport_calls = 0 => (is_token_expired(access_token, now) /\ last = NoReturn)
    /\ (last.path = "winner" /\ last.tr.out = "ok") =>
           (last.res = Ok(last.tr.token) /\ last.tr.token # Empty)

\* C10 witness: the first call, alone, has invoked the transport and returned
\* the token it delivered.
C10_Witness ==
    /\ started = 1
    /\ transport_calls = 1
    /\ last.path = "winner"
    /\ last.tr.out = "ok"
    /\ last.res = Ok(1)

\* ---------------------------------------------- calls made one after another
\* token() calls that never overlap, against a transport that always succeeds
\* with expires_in = 7200 (tests/access_token.rs).
StartTokenSeq(c) ==
    /\ \A d \in Callers : pc[d] = "idle"
    /\ StartToken(c) /\ UNCHANGED stable

NextSeq ==
    \/ \E c \in Callers : StartTokenSeq(c)
    \/ \E c \in Callers : FastCheck(c)
    \/ \E c \in Callers : Cas(c)
    \/ \E c \in Callers : WriteLock(c) /\ UNCHANGED stable
    \/ \E c \in Callers : TransportOk(c, 7200) /\ UNCHANGED exchange
    \/ \E c \in Callers : StoreExpiry(c)
    \/ \E c \in Callers : Clear(c)
    \/ \E c \in Callers : NotifyWaiters(c)
    \/ \E d \in TickSteps : Tick(d)

SpecSeq == Init /\ [][NextSeq]_vars

\* The tokens of the most recent successful refresh.
LatestTokens == {r.access_token : r \in response}

\* C11: for token() calls made one after another with a transport that always
\* succeeds with a 7200 s lifetime: a call whose check finds fewer than 5
\* minutes remaining goes on to the refresh without having invoked the
\* transport, invokes it once (never a second time) and returns as the winner
\* the token that invocation delivered; a call whose check finds 5 minutes or
\* more returns at once without invoking it; both return the token of the most
\* recent successful refresh.
C11_SequentialCalls ==
    /\ [][\A c \in Callers :
            (pc[c] = "fast_check" /\ pc'[c] # "fast_check") =>
                IF access_token.expired_at - now < 300
                THEN pc'[c] = "cas" /\ tr'[c] = NoTransport
                ELSE /\ pc'[c] = "idle"
                     /\ last'.path = "fast"
                     /\ last'.tr = NoTransport
                     /\ transport_calls' = transport_calls]_vars
    /\ [][\A c \in Callers :
            (pc[c] = "cas" /\ pc'[c] # "cas") => pc'[c] = "write_wait"]_vars
    /\ [][\A c \in Callers :
            (pc[c] = "write_wait" /\ pc'[c] # "write_wait") =>
                /\ pc'[c] = "transport"
                /\ tr[c] = NoTransport
                /\ transport_calls' = transport_calls + 1]_vars
    /\ [][transport_calls' # transport_calls =>
            \E c \in Callers : pc[c] = "write_wait" /\ pc'[c] = "transport"]_vars
    /\ [](last.path \in {"none", "fast", "winner"})
    /\ [](last.path = "winner" => last.tr.out = "ok" /\ last.res = Ok(last.tr.token))
    /\ [][\A c \in Callers :
            (pc[c] # "idle" /\ pc'[c] = "idle") =>
                /\ last'.res.kind = "ok"
                /\ last'.res.token \in {r.access_token : r \in response'}]_vars

\* C11 witness: three calls were made one after another; the third, made with
\* 4 min 59 s remaining, refreshed and returned the second token, so one of the
\* first two invoked the transport and the other did not.
C11_Witness ==
    /\ started = 3
    /\ \A c \in Callers : pc[c] = "idle"
    /\ now = 6901
    /\ last.path = "winner"
    /\ last.res = Ok(2)
    /\ transport_calls = 2

\* C12: the coordinator never retries: a call invokes the transport only when
\* it has not invoked it before in the same call, and a call whose invocation
\* failed goes straight to its return: to the clearing store and the error
\* return of token(), or out of a direct refresh_access_token().
C12_NoRetry ==
    /\ [][\A c \in Callers :
            (pc[c] # "transport" /\ pc'[c] = "transport") =>
                /\ tr[c] = NoTransport
                /\ transport_calls' = transport_calls + 1]_vars
    /\ [][\A c \in Callers :
            (pc[c] = "transport" /\ pc'[c] \notin {"transport", "store_expiry"}) =>
                /\ pc'[c] \in {"clear", "idle"}
                /\ transport_calls' = transport_calls
                /\ pc'[c] = "clear" => ret'[c] = Err /\ tr'[c] = Failed]_vars
    /\ [][\A c \in Callers :
            (pc[c] \in {"clear", "notify"} /\ pc'[c] # pc[c]) =>
                /\ pc'[c] \in {"notify", "idle"}
                /\ transport_calls' = transport_calls]_vars

\* C12 witness: a single token() call whose transport invocation failed has
\* returned the error, and the transport was invoked once.
C12_Witness ==
    /\ started = 1
    /\ last.path = "winner"
    /\ last.tr = Failed
    /\ last.res = Err
    /\ transport_calls = 1

\* ------------------------------------------- the token type over an HttpClient
\* serde_json::from_slice::<AccessTokenBuilder>(&response_body) succeeds.
from_slice(body) == body = "credential"

\* StableToken::token / NonStableToken::token: `?` on the result of
\* self.client.execute(request), `?` on the result of from_slice; the status of
\* the response is not read.
token_type_token(x) ==
    IF x.net = "error" THEN "err"
    ELSE IF ~from_slice(x.body) THEN "err"
    ELSE "ok"

\* self.token_type.token().await inside refresh_access_token(): the exchange x
\* takes place, and the storage goes on with the Result of the token type.
Execute(c, x, seconds) ==
    /\ exchange' = x
    /\ IF token_type_token(x) = "ok"
       THEN TransportOk(c, seconds)
       ELSE TransportErr(c)

NextExchange ==
    \/ \E c \in Callers : StartToken(c) /\ UNCHANGED stable
    \/ \E c \in Callers : FastCheck(c)
    \/ \E c \in Callers : Cas(c)
    \/ \E c \in Callers : WriteLock(c) /\ UNCHANGED stable
    \/ \E c \in Callers, x \in Exchanges, seconds \in ExpiresIn : Execute(c, x, seconds)
    \/ \E c \in Callers : StoreExpiry(c)
    \/ \E c \in Callers : Clear(c)
    \/ \E c \in Callers : NotifyWaiters(c)
    \/ \E c \in Callers : Register(c)
    \/ \E c \in Callers : Wake(c)
    \/ \E c \in Callers : LoserReturn(c)

SpecExchange == Init /\ [][NextExchange]_vars

\* The exchange ended in a network error, in a non-success HTTP status, or in
\* a body that cannot be decoded into a credential.
FailedExchange(x) ==
    \/ x.net = "error"
    \/ x.status \notin 200..299
    \/ x.body # "credential"

\* C13: a refresh whose exchange ends in a network error, a non-success HTTP
\* status or an undecodable body makes the triggering token() call return an
\* error and stores no credential: a caller whose call made the latest exchange
\* (it still holds the refresher flag) and whose exchange failed in one of the
\* three ways is on its way to the error return, and the cached token is not
\* the one of that exchange.
C13_FailedExchangeIsError ==
    \A c \in Callers :
        (/\ pc[c] \in {"store_expiry", "clear"}
         /\ tr[c] # NoTransport
         /\ FailedExchange(exchange))
            => /\ pc[c] = "clear"
               /\ ret[c] = Err
               /\ access_token.access_token # transport_calls

\* ------------------------------------------------------ clones of the handle
\* What a call through handle h works on.
View(h) == IF handles[h].shared THEN Contents ELSE handles[h].own

CloneDeep(h, g) ==
    /\ handles[h].live
    /\ ~handles[g].live
    /\ handles' = [handles EXCEPT ![g] =
                     [live |-> TRUE, shared |-> FALSE, own |-> View(h)]]
    /\ UNCHANGED <<now, ticks, access_token, refreshing, waiters, readers, writers,
                   pc, op, builder, ret, last, tr, started, transport_calls,
                   excused, response, orphaned, direct, parsed, stable, att, lost, parked_on,
                   check, exchange, log, qr>>

\* impl Clone for WechatMinappSDK, #[derive(Clone)] on the token clients: every
\* field is an Arc and is cloned as an Arc, the new handle points where the
\* old one points.
Clone(h, g) ==
    /\ handles[h].live
    /\ ~handles[g].live
    /\ handles' = [handles EXCEPT ![g] = handles[h]]
    /\ UNCHANGED <<now, ticks, access_token, refreshing, waiters, readers, writers,
                   pc, op, builder, ret, last, tr, started, transport_calls,
                   excused, response, orphaned, direct, parsed, stable, att, lost, parked_on,
                   check, exchange, log, qr>>

\* A handle that no call is borrowing is dropped; another one stays.
Drop(h) ==
    /\ handles[h].live
    /\ pc[h] = "idle"
    /\ \E g \in Callers \ {h} : handles[g].live
    /\ handles' = [handles EXCEPT ![h] = NoHandle]
    /\ UNCHANGED <<now, ticks, access_token, refreshing, waiters, readers, writers,
                   pc, op, builder, ret, last, tr, started, transport_calls,
                   excused, response, orphaned, direct, parsed, stable, att, lost, parked_on,
                   check, exchange, log, qr>>

\* WechatMinappSDK::token: self.token_storage.token().await through the
\* caller's handle.
TokenVia(c) ==
    /\ handles[c].live
    /\ StartToken(c) /\ UNCHANGED stable

\* One handle is constructed; the other callers get theirs by cloning.
InitClone ==
    /\ now = 0
    /\ access_token = New(now)
    /\ check = "none"
    /\ handles = [c \in Callers |-> IF c = 1 THEN ArcHandle ELSE NoHandle]
    /\ qr = NoQr
    /\ InitCommon

NextClone ==
    \/ \E h, g \in Callers : Clone(h, g)
    \/ \E h \in Callers : Drop(h)
    \/ \E c \in Callers : TokenVia(c)
    \/ \E c \in Callers : FastCheck(c)
    \/ \E c \in Callers : Cas(c)
    \/ \E c \in Callers : WriteLock(c) /\ UNCHANGED stable
    \/ \E c \in Callers, seconds \in ExpiresIn :
           TransportOk(c, seconds) /\ UNCHANGED exchange
    \/ \E c \in Callers : TransportErr(c) /\ UNCHANGED exchange
    \/ \E c \in Callers : StoreExpiry(c)
    \/ \E c \in Callers : Clear(c)
    \/ \E c \in Callers : NotifyWaiters(c)
    \/ \E c \in Callers : Register(c)
    \/ \E c \in Callers : Wake(c)
    \/ \E c \in Callers : LoserReturn(c)

SpecClone == InitClone /\ [][NextClone]_vars

\* C14: all clones of a client handle work on one and the same credential,
\* refresher flag and notification: every live handle points to the state
\* every other live handle points to, which is the state the calls work on; so
\* the fast path of a call through any handle returns, without a transport
\* call, the token of the credential most recently stored through whichever
\* handle, and a compare-and-set through any handle made while the flag is
\* claimed through another one fails.
C14_ClonesShareState ==
    /\ [](\A h, g \in Callers :
             (handles[h].live /\ handles[g].live) =>
                 View(h) = View(g) /\ View(h) = Contents)
    /\ [][\A c \in Callers :
            (pc[c] = "fast_check" /\ pc'[c] = "idle") =>
                /\ last'.res.kind = "ok"
                /\ last'.res.token \in LatestTokens
                /\ transport_calls' = transport_calls]_vars
    /\ [][\A c \in Callers :
            (pc[c] = "cas" /\ pc'[c] # "cas" /\ refreshing) =>
                pc'[c] = "notified" /\ refreshing']_vars

\* C14 witness: the first handle made the first call, which refreshed; a
\* clone of it is in its own first call, at the fast-path check, holding
\* shared access to the fresh credential that refresh stored.
C14_Witness ==
    /\ handles[2].live
    /\ pc[2] = "fast_check"
    /\ started = 2
    /\ transport_calls = 1
    /\ ~Stale
    /\ access_token.access_token = 1
    /\ View(2).access_token = access_token

\* The token strings a credential can carry.
Tokens == 0..MaxCalls

\* C15: the debug rendering of a credential does not depend on its token
\* string: credentials with different tokens and the same expiry render
\* identically, so the debug line written after a refresh is the line every
\* other token with the stored expiry would have produced, and is the
\* rendering of the credential just stored.
C15_DebugHidesToken ==
    /\ \A t \in Tokens :
           fmt([access_token EXCEPT !.access_token = t]) = fmt(access_token)
    /\ log.name # "none" =>
           \A t \in Tokens :
               log = fmt([access_token |-> t, expired_at |-> access_token.expired_at])

\* C15 witness: the debug line of the second refresh has been written, with
\* the second token in the cache.
C15_Witness ==
    /\ log.name = "AccessToken"
    /\ log.expired_at = access_token.expired_at
    /\ access_token.access_token = 2
    /\ transport_calls = 2

\* ------------------------------------------------- validation of QR arguments
\* NonQueryPagePath::validate: the four tests of the function, in its order;
\* the test of the length is commented out in the source.
validate(path) ==
    IF path.slash_first THEN Rejected("StartsWithSlash")
    ELSE IF path.query THEN Rejected("ContainsParams")
    ELSE IF path.bad_segment THEN Rejected("InvalidFormat")
    ELSE Built

SceneString_new_1024(s) ==
    IF len(s) > 1024 THEN Rejected("TooLong")
    ELSE IF s.other + s.wide > 0 THEN Rejected("InvalidChar")
    ELSE Built

\* SceneString::new: s.len() > 32 is TooLong, then the first character outside
\* VALID_CHARS is InvalidChar.
SceneString_new(s) ==
    IF len(s) > MaxSceneLen THEN Rejected("TooLong")
    ELSE IF s.other + s.wide > 0 THEN Rejected("InvalidChar")
    ELSE Built

\* UnlimitedQrCodeArgsBuilder::build: page, then scene, then the two colours.
build(b) ==
    IF ~b.page.set THEN Rejected("InvalidParameter")
    ELSE IF validate(b.page).kind = "err" THEN validate(b.page)
    ELSE IF ~b.scene.set THEN Rejected("InvalidParameter")
    ELSE IF SceneString_new(b.scene).kind = "err" THEN SceneString_new(b.scene)
    ELSE IF b.auto_color /\ b.line_color THEN Rejected("InvalidParameter")
    ELSE Built

\* Any arguments given to the builder, nothing built yet.
InitQr ==
    /\ now = 0
    /\ access_token = New(now)
    /\ check = "none"
    /\ handles = [c \in Callers |-> ArcHandle]
    /\ \E p \in Pages \cup {NoPage}, s \in Scenes \cup {NoScene}, a, l \in BOOLEAN :
           qr = [page |-> p, scene |-> s, auto_color |-> a, line_color |-> l,
                 result |-> NoBuild, scene_result |-> NoBuild]
    /\ InitCommon

\* UnlimitedQrCodeArgs::builder()...build()
Build ==
    /\ qr.result = NoBuild
    /\ qr' = [qr EXCEPT !.result = build(qr)]
    /\ UNCHANGED <<now, ticks, access_token, refreshing, waiters, readers, writers,
                   pc, op, builder, ret, last, tr, started, transport_calls,
                   excused, response, orphaned, direct, parsed, stable, att, lost, parked_on,
                   check, exchange, handles, log>>

\* SceneString::new(scene) on the scene string by itself
NewScene ==
    /\ qr.scene.set
    /\ qr.scene_result = NoBuild
    /\ qr' = [qr EXCEPT !.scene_result = SceneString_new(qr.scene)]
    /\ UNCHANGED <<now, ticks, access_token, refreshing, waiters, readers, writers,
                   pc, op, builder, ret, last, tr, started, transport_calls,
                   excused, response, orphaned, direct, parsed, stable, att, lost, parked_on,
                   check, exchange, handles, log>>

NextQr == Build \/ NewScene

SpecQr == InitQr /\ [][NextQr]_vars

\* A page path that validate() has nothing against, whatever its length.
WellFormed(path) == path.set /\ ~path.slash_first /\ ~path.query /\ ~path.bad_segment

\* A scene of at most 32 characters, all of them in the allowed set.
ValidScene(s) == s.set /\ chars(s) <= 32 /\ s.other = 0 /\ s.wide = 0

\* C16: UnlimitedQrCodeArgs::builder().build() returns an error for every page
\* path longer than 1024 characters, and succeeds for a well-formed page path
\* of exactly 1024 characters with a valid scene set (and no colour conflict).
C16_PagePathLimit ==
    qr.result # NoBuild =>
        /\ (qr.page.set /\ qr.page.len > 1024) => qr.result.kind = "err"
        /\ (/\ WellFormed(qr.page) /\ qr.page.len = 1024
            /\ ValidScene(qr.scene)
            /\ ~(qr.auto_color /\ qr.line_color)) => qr.result = Built

CallerStep(c) ==
    \/ FastCheck(c)
    \/ Cas(c)
    \/ WriteLock(c) /\ UNCHANGED stable
    \/ \E seconds \in ExpiresIn : TransportOk(c, seconds) /\ UNCHANGED exchange
    \/ TransportErr(c) /\ UNCHANGED exchange
    \/ StoreExpiry(c)
    \/ Clear(c)
    \/ NotifyWaiters(c)
    \/ Register(c)
    \/ Wake(c)
    \/ LoserReturn(c)

NextLive ==
    \/ \E c \in Callers : StartToken(c) /\ UNCHANGED stable
    \/ \E c \in Callers : CallerStep(c)

\* The runtime polls every task that can make progress, the RwLock is fair,
\* and the transport answers.
SpecLive ==
    /\ Init
    /\ [][NextLive]_vars
    /\ \A c \in Callers : WF_vars(CallerStep(c))

\* C18: under fair scheduling and a transport that always answers, every
\* token() call eventually returns: whatever the order of a loser's
\* registration on the Notify and the winner's broadcast, no caller stays
\* inside token() for ever.
C18_EveryCallReturns ==
    \A c \in Callers : (pc[c] # "idle") ~> (pc[c] = "idle")

\* The callers that a broadcast has woken and that have not returned yet.
Woken == {d \in Callers : pc[d] = "loser_ret" \/ (pc[d] = "wait" /\ d \notin waiters)}

\* C19: in a successful refresh the store of the new credential precedes the
\* clearing of the flag, and the clearing precedes the broadcast: the flag is
\* still claimed while the winner's transport call and its stores are under
\* way; once the winner has passed its stores and is at the clearing store or
\* at the broadcast, the cached token is the one its exchange delivered (or
\* one delivered since); and a woken caller that lost the compare-and-set to an
\* attempt that stored a credential finds that credential (or a later one) in
\* the cache and returns it, never the one cached before the attempt.
C19_StoreBeforeClear ==
    /\ \A c \in Callers :
           (op[c] = "token" /\ pc[c] \in {"transport", "store_expiry"}) => refreshing
    /\ \A c \in Callers :
           (pc[c] \in {"clear", "notify"} /\ tr[c].out = "ok") =>
               /\ ret[c] = Ok(tr[c].token)
               /\ access_token.access_token \in tr[c].token..transport_calls
               /\ access_token.access_token # Empty
    /\ \A d \in Woken :
           lost[d].newer # NoToken =>
               /\ access_token.access_token = lost[d].newer
               /\ lost[d].newer # lost[d].pre
    /\ (last.path = "loser" /\ last.lost.newer # NoToken) =>
           /\ last.res = Ok(last.lost.newer)
           /\ last.res # Ok(last.lost.pre)

\* C19 witness: a caller that lost the compare-and-set to the first refresh,
\* which succeeded, has been woken and has returned the token that refresh
\* stored, not the placeholder cached before it.
C19_Witness ==
    /\ last.path = "loser"
    /\ ~last.lost.failed
    /\ last.lost.pre = Empty
    /\ last.lost.newer = 1
    /\ last.res = Ok(1)

\* The callers holding the refresher role: between a successful
\* compare-and-set and the clearing store of their token() call.
Holders == {c \in Callers : op[c] = "token" /\ pc[c] \in RefresherPcs}

\* The refresher role is exclusive: never two holders, the flag is true while
\* there is a holder, and a compare-and-set succeeds exactly when the flag is
\* false, which it is no more after it.
RefresherRoleIsExclusive ==
    /\ [](Cardinality(Holders) <= 1)
    /\ [](Holders # {} => refreshing)
    /\ [][\A c \in Callers :
            (pc[c] = "cas" /\ pc'[c] # "cas") =>
                /\ refreshing'
                /\ (pc'[c] = "write_wait") <=> ~refreshing
                /\ (pc'[c] = "notified") <=> refreshing]_vars

\* C20: at most one caller holds the refresher role at any time, and the flag
\* is true exactly while one caller is between its successful compare-and-set
\* and its clearing store.
C20_FlagIffOneRefresher ==
    /\ Cardinality(Holders) <= 1
    /\ refreshing <=> (Cardinality(Holders) = 1)

\* C21: a compare-and-set winner that, once it has exclusive access, finds the
\* stored credential fresh leaves refresh_access_token() with that stored token
\* and without a transport call, then clears the flag, wakes every registered
\* waiter and returns the token.
C21_WinnerDoubleCheck ==
    /\ [][\A c \in Callers :
            (/\ pc[c] = "write_wait" /\ pc'[c] # "write_wait" /\ pc'[c] # "idle"
             /\ op[c] = "token"
             /\ ~is_token_expired(access_token, now)) =>
                /\ pc'[c] = "clear"
                /\ ret'[c] = Ok(access_token.access_token)
                /\ tr'[c] = NoTransport
                /\ transport_calls' = transport_calls
                /\ access_token' = access_token
                /\ writers' = writers]_vars
    /\ [][\A c \in Callers :
            (pc[c] = "clear" /\ tr[c] = NoTransport /\ pc'[c] # "clear") =>
                /\ pc'[c] = "notify"
                /\ ~refreshing'
                /\ ret'[c] = ret[c]]_vars
    /\ [][\A c \in Callers :
            (pc[c] = "notify" /\ tr[c] = NoTransport /\ pc'[c] # "notify") =>
                /\ waiters' = {}
                /\ pc'[c] = "idle"
                /\ last' = [res |-> ret[c], path |-> "winner", tr |-> NoTransport,
                            lost |-> lost[c]]
                /\ ret[c].kind = "ok"
                /\ transport_calls' = transport_calls]_vars

\* C21 witness: a winner that found the credential of the first refresh fresh
\* under exclusive access has returned its token; the transport was invoked
\* once, by the other caller.
C21_Witness ==
    /\ last.path = "winner"
    /\ last.tr = NoTransport
    /\ last.res = Ok(1)
    /\ transport_calls = 1
    /\ ~refreshing

\* The positions of a caller that has lost the compare-and-set.
LoserPcs == {"notified", "wait", "loser_ret"}

\* C22: a caller that loses the compare-and-set attempts it once and invokes
\* the transport not at all: from the failed compare-and-set it goes to the
\* Notify, from the wake-up to the read of the credential, and from there to
\* its return, with no transport call of its own on the way; it returns the
\* token it reads as Ok, whether the credential is fresh or stale, and changes
\* neither the credential nor the flag nor the number of transport calls.
C22_LoserReadsAndReturns ==
    /\ [](\A c \in Callers : pc[c] \in LoserPcs => tr[c] = NoTransport /\ op[c] = "token")
    /\ [][\A c \in Callers :
            (pc[c] \in LoserPcs /\ pc'[c] # pc[c]) =>
                /\ pc[c] = "notified" => pc'[c] = "wait"
                /\ pc[c] = "wait" => pc'[c] \in {"loser_ret", "idle"}
                /\ pc[c] = "loser_ret" => pc'[c] = "idle"
                /\ transport_calls' = transport_calls
                /\ refreshing' = refreshing
                /\ access_token' = access_token]_vars
    /\ [][\A c \in Callers :
            (pc[c] = "loser_ret" /\ pc'[c] # "loser_ret") =>
                last' = [res |-> Ok(access_token.access_token), path |-> "loser",
                         tr |-> NoTransport, lost |-> lost[c]]]_vars

\* C22 witness: a loser woken after a refresh that delivered a credential of
\* less than 5 minutes has returned that token, stale as it is, and the
\* transport was invoked once in all.
C22_Witness ==
    /\ last.path = "loser"
    /\ last.res = Ok(1)
    /\ access_token.access_token = 1
    /\ is_token_expired(access_token, now)
    /\ transport_calls = 1

\* The positions at which a caller holds a read guard and reads the credential.
ReadingPcs == {"fast_check", "loser_ret"}

\* C23: while a transport call is in flight, and until its result is stored,
\* the caller performing it holds the exclusive lock on the credential, alone;
\* so no caller holds shared access or is reading the credential, by the fast
\* path or after a wake-up, between the start of a transport call and the
\* store of its result.
C23_WriteLockAcrossTransport ==
    /\ \A c \in Callers :
           pc[c] \in {"transport", "store_expiry"} =>
               /\ writers = {c}
               /\ readers = {}
               /\ \A d \in Callers : pc[d] \notin ReadingPcs
    /\ \A d \in Callers : pc[d] \in ReadingPcs <=> d \in readers

\* C23 witness: a transport call is in flight while a woken loser waits for
\* shared access to the credential.
C23_Witness ==
    \E c, d \in Callers :
        /\ pc[c] = "transport"
        /\ writers = {c}
        /\ pc[d] = "wait"
        /\ d \notin waiters

\* A token() call returns by the fast path or by the loser path and leaves
\* the stored credential and the refresher flag as they were.
ReadPathsChangeNothing ==
    \A c \in Callers :
        (pc[c] \in ReadingPcs /\ pc'[c] = "idle") =>
            /\ access_token' = access_token
            /\ refreshing' = refreshing

\* The caller c stores a successful transport response under exclusive access.
StoresResponse(c) ==
    /\ writers = {c}
    /\ \/ pc[c] = "transport" /\ pc'[c] = "store_expiry" /\ tr'[c].out = "ok"
       \/ pc[c] = "store_expiry" /\ tr[c].out = "ok"

\* C24 as stated: a token() call that returns by the fast path or by the
\* loser path leaves the stored credential and the refresher flag unchanged,
\* and the stored credential changes only in a step where the flag holder,
\* under exclusive access, stores a successful transport response.
C24_OnlyFlagHolderStores ==
    /\ [][ReadPathsChangeNothing]_vars
    /\ [][access_token' # access_token =>
            \E c \in Holders : refreshing /\ StoresResponse(c)]_vars

\* C24 as amended: a token() call that returns by the fast path or by the
\* loser path leaves the stored credential and the refresher flag unchanged,
\* and the stored credential changes only in a step where a caller holding
\* exclusive access stores a successful transport response: the flag holder
\* of a token() call, or a caller of refresh_access_token() itself, which
\* holds no flag.
C24_OnlyWriterStores ==
    /\ [][ReadPathsChangeNothing]_vars
    /\ [][access_token' # access_token =>
            \E c \in Callers :
                /\ StoresResponse(c)
                /\ \/ c \in Holders /\ refreshing
                   \/ op[c] = "refresh"]_vars

\* C24 witness: a direct refresh_access_token() has stored the credential of
\* its exchange and returned, after a token() call had stored the one of the
\* first exchange.
C24_Witness ==
    /\ last.path = "direct"
    /\ last.tr.out = "ok"
    /\ last.res = Ok(2)
    /\ access_token.access_token = 2
    /\ access_token \in response
    /\ log.name = "AccessToken"


\* C25: the expiry written into the cache by a successful refresh is the clock
\* value at the moment the response was parsed plus the expires_in seconds of
\* that response; the clock at the later moment of the write plays no part.
C25_ExpiryFromParseClock ==
    [][\A c \in Callers :
          (pc[c] = "store_expiry" /\ pc'[c] # "store_expiry") =>
              /\ parsed.seconds \in ExpiresIn
              /\ access_token'.expired_at = parsed.at + parsed.seconds
              /\ access_token'.access_token = access_token.access_token
              /\ now' = now]_vars

\* C25 witness: a response with expires_in = 7200 was parsed at clock 0, the
\* clock then moved, and the cache holds 0 + 7200, which a computation from
\* the present clock would not give.
C25_Witness ==
    /\ last.tr.out = "ok"
    /\ last.res = Ok(access_token.access_token)
    /\ parsed = [at |-> 0, seconds |-> 7200]
    /\ now = 6901
    /\ access_token.expired_at = 7200
    /\ is_token_expired(access_token, now)

\* C26: the clock of the model never goes backwards and its transport delivers
\* tokens 1, 2, ..., never the empty one.  Then no call returns the empty
\* placeholder token by the fast path, by the winner path or out of
\* refresh_access_token(): a result Ok("") comes from the loser path only.
C26_EmptyTokenOnlyFromLoser ==
    /\ last.res = Ok(Empty) => last.path = "loser"
    /\ \A c \in Callers : ret[c] # Ok(Empty)
    /\ \A r \in response : r.access_token # Empty

\* C26 witness: the clock has moved, the cache still holds the placeholder,
\* stale as ever, and a loser has returned it as Ok("").
C26_Witness ==
    /\ last.path = "loser"
    /\ last.res = Ok(Empty)
    /\ access_token.access_token = Empty
    /\ ticks = 1
    /\ is_token_expired(access_token, now)

\* ------------------------------------------------------- short-lived responses
\* token() calls that never overlap, against a transport that always succeeds,
\* with a lifetime of 7200 s or of 299 s.
NextShort ==
    \/ \E c \in Callers : StartTokenSeq(c)
    \/ \E c \in Callers : FastCheck(c)
    \/ \E c \in Callers : Cas(c)
    \/ \E c \in Callers : WriteLock(c) /\ UNCHANGED stable
    \/ \E c \in Callers : \E seconds \in ExpiresIn :
           TransportOk(c, seconds) /\ UNCHANGED exchange
    \/ \E c \in Callers : StoreExpiry(c)
    \/ \E c \in Callers : Clear(c)
    \/ \E c \in Callers : NotifyWaiters(c)
    \/ \E d \in TickSteps : Tick(d)

SpecShort == Init /\ [][NextShort]_vars

\* The cache holds the credential of the latest response, and that response
\* gave it less than the 5 minutes of margin to live.
ShortLived ==
    /\ access_token \in response
    /\ parsed.seconds < DurationMinutes(MarginMinutes)

\* C27: when the transport succeeds with a lifetime shorter than 5 minutes,
\* the credential is stored and is returned to the winner, but it is stale from
\* the moment it is stored and stays so; the next token() call does not return
\* by the fast path: it goes on to the compare-and-set, wins it, finds the
\* credential stale under the write lock too and invokes the transport again.
C27_ShortLifetimeRefreshesAgain ==
    /\ [][\A c \in Callers :
            (pc[c] = "store_expiry" /\ pc'[c] # "store_expiry"
                /\ parsed.seconds < DurationMinutes(MarginMinutes)) =>
                /\ access_token' \in response
                /\ access_token'.access_token = tr[c].token
                /\ ret'[c] = Ok(tr[c].token)
                /\ is_token_expired(access_token', now)]_vars
    /\ [](ShortLived => Stale)
    /\ [][\A c \in Callers :
            (pc[c] = "notify" /\ pc'[c] = "idle" /\ ShortLived) =>
                /\ last'.path = "winner"
                /\ last'.res = Ok(access_token.access_token)]_vars
    /\ [][\A c \in Callers :
            (ShortLived /\ pc[c] = "fast_check" /\ pc'[c] # "fast_check") =>
                pc'[c] = "cas"]_vars
    /\ [][\A c \in Callers :
            (ShortLived /\ pc[c] = "cas" /\ pc'[c] # "cas") =>
                pc'[c] = "write_wait" /\ refreshing']_vars
    /\ [][\A c \in Callers :
            (ShortLived /\ pc[c] = "write_wait" /\ pc'[c] # "write_wait") =>
                /\ pc'[c] = "transport"
                /\ transport_calls' = transport_calls + 1]_vars

\* C27 witness: the first call stored and returned token 1, which the response
\* gave 299 s to live; the clock has not moved, and the second call is in its
\* own transport exchange.
C27_Witness ==
    /\ ShortLived
    /\ now = 0
    /\ last.path = "winner"
    /\ last.res = Ok(1)
    /\ access_token.access_token = 1
    /\ transport_calls = 2
    /\ \E c \in Callers : pc[c] = "transport" /\ writers = {c}


\* ------------------------------------------- Client::stable_access_token
\* Client::stable_access_token(force_refresh) begins: the argument is taken and
\* self.access_token.read().await completes.  From there on the function has
\* the steps of MemoryTokenStorage::token(), on the Client's own access_token,
\* refreshing and notify.  The calls are made at one clock reading and run to
\* their end: a credential is stale here when it is the placeholder or when its
\* response gave it less than the margin to live.
stable_access_token(c, force_refresh) ==
    /\ StartToken(c)
    /\ stable' = [stable EXCEPT !.force_refresh[c] = force_refresh]

refresh_stable_access_token_forced(c) ==
    /\ IF stable.force_refresh[c] = "Some(true)"
       THEN WriteLockNoDoubleCheck(c)
       ELSE WriteLock(c)
    /\ stable' = IF pc'[c] = "transport"
                 THEN [stable EXCEPT !.request = stable.force_refresh[c]]
                 ELSE stable

\* Client::refresh_stable_access_token(force_refresh): the write lock, the
\* double check, and for a stale credential the call
\* get_stable_access_token(client, app_id, secret, force_refresh).
refresh_stable_access_token(c) ==
    /\ WriteLock(c)
    /\ stable' = IF pc'[c] = "transport"
                 THEN [stable EXCEPT !.request = stable.force_refresh[c]]
                 ELSE stable

NextStable ==
    \/ \E c \in Callers : \E force_refresh \in ForceRefresh :
           stable_access_token(c, force_refresh)
    \/ \E c \in Callers : FastCheck(c)
    \/ \E c \in Callers : Cas(c)
    \/ \E c \in Callers : refresh_stable_access_token(c)
    \/ \E c \in Callers, seconds \in ExpiresIn :
           TransportOk(c, seconds) /\ UNCHANGED exchange
    \/ \E c \in Callers : TransportErr(c) /\ UNCHANGED exchange
    \/ \E c \in Callers : StoreExpiry(c)
    \/ \E c \in Callers : Clear(c)
    \/ \E c \in Callers : NotifyWaiters(c)
    \/ \E c \in Callers : Register(c)
    \/ \E c \in Callers : Wake(c)
    \/ \E c \in Callers : LoserReturn(c)

SpecStable == Init /\ [][NextStable]_vars

\* C28: a call Client::stable_access_token(Some(true)) whose check finds the
\* cached credential fresh returns the cached token by the fast path and the
\* transport is not invoked; the transport is invoked, and force_refresh
\* passed to it, only in a step where a caller that won the compare-and-set
\* holds the flag, has the write lock and finds the credential stale.
C28_ForceRefreshOnlyWhenStale ==
    /\ [][\A c \in Callers :
            (/\ pc[c] = "fast_check" /\ pc'[c] # "fast_check"
             /\ stable.force_refresh[c] = "Some(true)"
             /\ ~is_token_expired(access_token, now)) =>
                /\ pc'[c] = "idle"
                /\ last'.path = "fast"
                /\ last'.res = Ok(access_token.access_token)
                /\ last'.tr = NoTransport
                /\ transport_calls' = transport_calls
                /\ stable'.request = stable.request]_vars
    /\ [][(transport_calls' # transport_calls \/ stable'.request # stable.request) =>
            \E c \in Holders :
                /\ pc[c] = "write_wait" /\ pc'[c] = "transport"
                /\ refreshing
                /\ writers' = {c}
                /\ is_token_expired(access_token, now)
                /\ transport_calls' = transport_calls + 1
                /\ stable'.request = stable.force_refresh[c]]_vars

\* C28 witness: a call made with force_refresh = Some(true) has returned the
\* fresh cached token by the fast path; the one transport call so far was made
\* by the first call, without force_refresh.
C28_Witness ==
    /\ last.path = "fast"
    /\ last.res = Ok(1)
    /\ \E c \in Callers : pc[c] = "idle" /\ stable.force_refresh[c] = "Some(true)"
    /\ \A c \in Callers : pc[c] = "idle" /\ stable.force_refresh[c] # "None"
    /\ stable.request = "Some(false)"
    /\ transport_calls = 1
    /\ started = 2
    /\ ~is_token_expired(access_token, now)

\* C29: a caller inside TokenStorage::refresh_access_token() called directly
\* never changes the refresher flag and never wakes or adds a waiter, whatever
\* the token() calls around it do; and still at most one transport call is in
\* flight at any time, each one made by the holder of the exclusive lock.
C29_DirectRefreshLeavesFlagAlone ==
    /\ [][\A c \in Callers :
            (op[c] = "refresh" \/ op'[c] = "refresh") /\ pc'[c] # pc[c] =>
                /\ refreshing' = refreshing
                /\ waiters' = waiters]_vars
    /\ [](\A c \in Callers : op[c] = "refresh" => pc[c] \in RefresherPcs \ {"clear"})
    /\ [](\A c, d \in InFlight : c = d /\ writers = {c} /\ readers = {})

\* C29 witness: the transport call of a direct refresh_access_token() is in
\* flight while a token() call that won the compare-and-set holds the flag and
\* waits for the write lock.
C29_Witness ==
    \E c, d \in Callers :
        /\ op[c] = "refresh" /\ pc[c] = "transport" /\ writers = {c}
        /\ op[d] = "token" /\ pc[d] = "write_wait"
        /\ refreshing

\* The caller waits for a lock on the credential that it cannot have now: the
\* write lock of the refresh, or the read lock of the loser's re-read after
\* its Notified future has completed.
BlockedOnLock(c) ==
    \/ pc[c] = "write_wait" /\ ~CanWrite
    \/ pc[c] = "wait" /\ c \notin waiters /\ ~CanRead

\* C30: a caller holds read access only between acquiring it and the check or
\* the re-read it was acquired for: never when it attempts the compare-and-set,
\* requests the write lock, performs the refresh or parks on the Notify.  So
\* whenever no transport call is in flight, some caller is not blocked on a
\* lock; indeed, whenever a caller is blocked on a lock, the lock is held by a
\* caller that is not waiting for anything but, at most, its transport.
C30_NoGuardHeldWhileWaiting ==
    /\ \A c \in readers : pc[c] \in ReadingPcs
    /\ \A c \in Callers :
           pc[c] \in {"cas", "write_wait", "notified", "wait"} =>
               c \notin readers /\ c \notin writers
    /\ InFlight = {} => \E c \in Callers : ~BlockedOnLock(c)
    /\ \A c \in Callers :
           BlockedOnLock(c) =>
               \E d \in Callers \ {c} :
                   \/ d \in readers /\ pc[d] \in ReadingPcs
                   \/ writers = {d} /\ pc[d] \in {"transport", "store_expiry"}

\* C30 witness: no transport call is in flight; a caller that won the
\* compare-and-set is kept from the write lock by the read guard of another
\* caller, which is at its fast check and will drop the guard there.
C30_Witness ==
    \E c, d \in Callers :
        /\ InFlight = {}
        /\ pc[c] = "write_wait" /\ BlockedOnLock(c)
        /\ pc[d] = "fast_check" /\ readers = {d}
        /\ refreshing

====
